---- MODULE Spec2Model ----
(***************************************************************************)
(* Reactive runtime of @reactivly/server: stores, notifiers, the derived   *)
(* store engine, the query/mutation factories and the WebSocket server     *)
(* (createReactiveWSServer).                                               *)
(*                                                                         *)
(* One JavaScript task (a synchronous run of a handler up to its next      *)
(* await) is one action.  A compute function and a mutation's execute      *)
(* function are asynchronous: their completion is a separate action.       *)
(***************************************************************************)
EXTENDS Integers, Sequences, FiniteSets, TLC

VARIABLES
  ws,          \* ws.readyState of every connection: "idle" | "open" | "closed"
  clientSubs,  \* Map<WebSocket, ClientSubscription[]>; DOMAIN = connected sockets
  comps,       \* every derivedStore constructed so far, in construction order
  nObs,        \* observers of the global notifier N, in registration order
  uSlot,       \* the sessions map of session store U: one slot per session id
  gVal,        \* value of the global store G
  gObs,        \* observers of the global store G, in registration order
  muts,        \* mutation executions awaited by a message handler
  msgs,        \* number of frames received so far (the next requestId)
  ncalls,      \* number of direct calls of the store API so far
  fires,       \* number of notifications raised by the external adapter
  proc,        \* the server process: "up" | "exited"
  dObs,        \* observers of the subj of derived notifier D, in order
  ds,          \* the closure of derived store S built by application code
  timers,      \* pending setTimeout callbacks: kind and time left
  since,       \* time since the last call of S's run(), up to DebounceMs
  client,      \* an EndpointsWSClient: readyState, subscriptions, frames sent
  fsn,         \* per path, the closure of notifierFor(path) and its watchers
  sq,          \* per subscriber, the closure of subscribe of the plain query
  pgn,         \* per table, the subscribers and LISTEN state of the pg notifier
  ev           \* what the last task did (frames written, callbacks invoked)

vars == <<ws, clientSubs, comps, nObs, uSlot, gVal, gObs, muts, msgs, ncalls,
          fires, proc, dObs, ds, timers, since, client, fsn, sq, pgn, ev>>

(* ------------------------------ bounds --------------------------------- *)
MaxMsgs == 3
MaxFires == 2
MaxCalls == 4
MaxOut == 3
MaxDeps == 3
DebounceMs == 2

(* ---------------------------- the program ------------------------------ *)
Conns == {"c1", "c2"}
NoSession == "none"

\* Callbacks that application code subscribes to a store directly.
Subscribers == {"s1", "s2", "s3"}

\* The action map returned by the factory.
Queries == {"itemsList", "sessionUser"}
Mutations == {"login", "addItem"}
Unknown == "nope"

\* params of a frame.  "none" is an absent params field, "obj" a JSON object;
\* the others are the arguments of the mutations ("bad" fails the schema).
QueryParams == {"none", "obj"}
ParamsOf(name) ==
  IF name \in Queries THEN QueryParams
  ELSE IF name = "login" THEN {"alice", "bad"}
  ELSE IF name = "addItem" THEN {"item", "bad"}
  ELSE {"none"}

\* schema.parse(args): throws on input the schema rejects.
SchemaAccepts(name, p) == p # "bad"

\* opts.deps of every query: itemsList depends on notifier N, sessionUser on
\* session store U.
DepOf(name) == IF name = "sessionUser" THEN "U" ELSE "N"

\* Tables given to notifierFor of the pg notifier by application code.
Tables == {"items", "orders"}

\* Callers of subscribe of the plain query.
SqSubscribers == {"s1", "s2"}

\* Paths given to notifierFor by application code.
Paths == {"p", "q"}

\* Initial value of session store U and of global store G.
UInit == "null"
NoVal == "undefined"

(* ---------------------------- helpers ---------------------------------- *)
Range(s) == {s[i] : i \in 1..Len(s)}
Without(s, K) == SelectSeq(s, LAMBDA x : x \notin K)

\* ev: the task's kind, its connection (or ambient session), the action name
\* and params of its frame, its computation or requestId (k), the frames it
\* wrote (sent), the observers a store or notifier invoked in it (invoked),
\* the computations whose subscriber callback it invoked (cb), the number
\* of execute() calls the settled compute call had absorbed (absorbed), the
\* number of calls of the action factory (made) and of schema.parse of a
\* query (parsed) in the task, whether the call threw (threw), and the
\* observers that derived notifier D invoked in it (notified).
Ev(op, c, name, k) ==
  [op |-> op, conn |-> c, name |-> name, k |-> k, p |-> "none", sent |-> <<>>,
   invoked |-> <<>>, cb |-> {}, absorbed |-> 0, made |-> 0, parsed |-> 0,
   threw |-> FALSE, notified |-> <<>>]

\* createReactiveWSServer: const actions = factory(), outside of any session.
NoEv == [Ev("init", NoSession, "", 0) EXCEPT !.made = 1]

Frame(c, type, name, data, rid) ==
  [conn |-> c, type |-> type, name |-> name, data |-> data, rid |-> rid]

(* ------------------------- rxjs Subject.next --------------------------- *)
\* subj.next(v): every current observer is invoked once with v, in the order
\* of subscription, before next returns.
SubjectNext(obs, v) == [i \in 1..Len(obs) |-> [sub |-> obs[i], val |-> v]]

(* --------------------------- session store ----------------------------- *)
\* current(sessionId): the slot is created lazily with the initial value.
current(slots, s) ==
  IF slots[s].exists THEN slots
  ELSE [slots EXCEPT ![s] = [exists |-> TRUE, val |-> UInit, obs |-> <<>>]]

\* A set that reaches the observers of every session.
SessionSetInvokedAllSessions(slots, s, v) ==
  SubjectNext(current(slots, "c1")["c1"].obs \o current(slots, "c2")["c2"].obs, v)

\* A set that misses the observer subscribed last.
SessionSetInvokedSkipNewest(slots, s, v) ==
  SubjectNext(SubSeq(current(slots, s)[s].obs, 1,
                     Len(current(slots, s)[s].obs) - 1), v)

\* _sessionStore.set(sessionId, val): subj.next(val) on that session's slot.
SessionSet(slots, s, v) == [current(slots, s) EXCEPT ![s].val = v]
SessionSetInvoked(slots, s, v) == SubjectNext(current(slots, s)[s].obs, v)

\* _sessionStore.subscribe(sessionId, fn)
SessionSubscribe(slots, s, o) ==
  [current(slots, s) EXCEPT ![s].obs = Append(@, o)]

(* --------------------------- derived store ----------------------------- *)
\* fn of the queries: itemsList reads the database, sessionUser is U.get() under
\* the ambient session of the caller.
Compute(name, ctx, slots) ==
  IF name = "sessionUser"
  THEN (IF ctx \in Conns /\ slots[ctx].exists THEN slots[ctx].val ELSE UInit)
  ELSE "rows"

\* execute(): a call while running only sets pending; otherwise the compute
\* function is invoked and awaited.
execute(cp, ctx, slots) ==
  IF cp.running THEN [cp EXCEPT !.pending = TRUE, !.missed = @ + 1]
  ELSE [cp EXCEPT !.running = TRUE, !.missed = 0, !.ctx = ctx,
                  !.val = Compute(cp.name, ctx, slots)]

\* run(): no debounce is configured for the queries of the action map.
run(cp, ctx, slots) == execute(cp, ctx, slots)

\* The dependency callbacks () => run() of the invoked observers, in order.
RECURSIVE RunAll(_, _, _, _)
RunAll(cs, inv, ctx, slots) ==
  IF inv = <<>> THEN cs
  ELSE RunAll([cs EXCEPT ![Head(inv).sub] = run(@, ctx, slots)],
              Tail(inv), ctx, slots)

\* A derived store: the query that made it, the socket its subscriber
\* writes to, activeSubs, whether the subscriber is subscribed to subj (sub)
\* or was unsubscribed (cancelled), running, pending, the ambient session and
\* the result of the compute call in flight, and the number of execute()
\* calls that call has absorbed (missed).
NewComp(c, name, p) ==
  [name |-> name, conn |-> c, params |-> p, activeSubs |-> 0, sub |-> FALSE,
   cancelled |-> FALSE, running |-> FALSE, pending |-> FALSE,
   ctx |-> NoSession, val |-> NoVal, missed |-> 0]

\* Does computation k hold a subscription on one of its dependencies?
HoldsDep(k) ==
  \/ k \in Range(nObs)
  \/ \E s \in Conns : uSlot[s].exists /\ k \in Range(uSlot[s].obs)

(* ------------------------- the WebSocket server ------------------------ *)
\* ws.send guarded by ws.readyState === WebSocket.OPEN
SendIfOpen(c, f) == IF ws[c] = "open" THEN <<f>> ELSE <<>>

\* The process serves events.
Up == proc = "up"

\* An awaited function that is synchronous (login, the fn of sessionUser)
\* settles in a microtask: its continuation runs before the next event (a
\* connection, a frame, a close, a notification of the adapter) is
\* dispatched.  The database calls of addItem and itemsList settle later.
Microtasks ==
  \/ \E m \in muts : m.name = "login"
  \/ \E k \in DOMAIN comps : comps[k].running /\ comps[k].name = "sessionUser"
Dispatch == Up /\ ~Microtasks

\* Objects that application code builds from the library directly; the
\* WebSocket server does not touch them.
LibFrame == UNCHANGED <<dObs, ds, timers, since, client, fsn, sq, pgn>>

\* Neither the message handler nor a caller of run() catches a rejection:
\* the promise is rejected with no handler attached.  What follows is the
\* choice of the host process, which either reports the rejection and goes
\* on (Survives) or terminates, the default of Node.js (Exits): its sockets
\* are closed and its objects are gone.
Survives == UNCHANGED proc
Exits ==
  /\ proc' = "exited"
  /\ ws' = [d \in Conns |-> IF ws[d] = "open" THEN "closed" ELSE ws[d]]
  /\ clientSubs' = <<>>
  /\ comps' = <<>>
  /\ nObs' = <<>>
  /\ uSlot' = [s \in Conns |-> [exists |-> FALSE, val |-> UInit, obs |-> <<>>]]
  /\ muts' = {}

Init ==
  /\ ws = [c \in Conns |-> "idle"]
  /\ clientSubs = <<>>
  /\ comps = <<>>
  /\ nObs = <<>>
  /\ uSlot = [s \in Conns |-> [exists |-> FALSE, val |-> UInit, obs |-> <<>>]]
  /\ gVal = UInit
  /\ gObs = <<>>
  /\ muts = {}
  /\ msgs = 0
  /\ ncalls = 0
  /\ fires = 0
  /\ proc = "up"
  /\ dObs = <<>>
  /\ ds = [made |-> FALSE, cache |-> "none", debounce |-> 0,
           lastValue |-> NoVal, subjVal |-> NoVal, obs |-> <<>>,
           activeSubs |-> 0, running |-> FALSE, pending |-> FALSE,
           depHeld |-> FALSE, src |-> "alice", val |-> NoVal,
           cancelled |-> {}]
  /\ timers = <<>>
  /\ since = 0
  /\ client = [ready |-> FALSE, subscriptions |-> <<>>, out |-> <<>>,
               queued |-> <<>>, handles |-> {}]
  /\ fsn = [path \in Paths |-> [subs |-> {}, watcher |-> FALSE, open |-> 0,
                                 handles |-> {}]]
  /\ sq = [o \in SqSubscribers |->
             [made |-> FALSE, dep |-> "N", active |-> FALSE, held |-> FALSE,
              inflight |-> {}, started |-> 0, seen |-> 0]]
  /\ pgn = [table \in Tables |-> [subs |-> <<>>, listen |-> "no", handles |-> {}]]
  /\ ev = NoEv

\* wss.on("connection")
Connect(c) ==
  /\ LibFrame
  /\ Dispatch /\ ws[c] = "idle"
  /\ ws' = [ws EXCEPT ![c] = "open"]
  /\ clientSubs' = [d \in DOMAIN clientSubs \cup {c} |->
                      IF d = c THEN <<>> ELSE clientSubs[d]]
  /\ ev' = Ev("connect", c, "", 0)
  /\ UNCHANGED <<comps, nObs, uSlot, gVal, gObs, muts, msgs, ncalls, fires,
                 proc>>

\* A frame can be received on c.
Receives(c) == Dispatch /\ ws[c] = "open" /\ msgs < MaxMsgs

\* ws.on("message"): actions[msg.name] is undefined, whatever msg.type is.
OnUnknown(c) ==
  /\ LibFrame
  /\ Receives(c)
  /\ msgs' = msgs + 1
  /\ ev' = [Ev("unknown", c, Unknown, 0) EXCEPT
              !.sent = <<Frame(c, "error", Unknown, "Unknown action", 0)>>]
  /\ UNCHANGED <<ws, clientSubs, comps, nObs, uSlot, gVal, gObs, muts, ncalls,
                 fires, proc>>

\* derivedStore(opts), called by the query factory with deps = [...opts.deps,
\* ...inputDeps]: the dependencies are subscribed in order.  A session store
\* emits its current value to the new observer, whose callback calls run().
ConstructSlots(c, name) ==
  IF DepOf(name) = "U" THEN SessionSubscribe(uSlot, c, Len(comps) + 1) ELSE uSlot
ConstructNObs(name) ==
  IF DepOf(name) = "N" THEN Append(nObs, Len(comps) + 1) ELSE nObs
Constructed(c, name, p) ==
  IF DepOf(name) = "U"
  THEN run(NewComp(c, name, p), c, ConstructSlots(c, name))
  ELSE NewComp(c, name, p)

\* derivedStore.subscribe(fn) of a store without cache: activeSubs++, run(),
\* then fn is subscribed to subj.
Subscribed(cp, ctx, slots) ==
  [run([cp EXCEPT !.activeSubs = @ + 1], ctx, slots) EXCEPT !.sub = TRUE]

\* subscribe frame naming a query.  A params object is passed to the query
\* factory as its reactive input: it is appended to the dependencies, and
\* subscribing to it throws after the declared dependencies were subscribed.
OnSubscribe(c, name, p) ==
  /\ LibFrame
  /\ Receives(c)
  /\ name \in Queries /\ p \in ParamsOf(name)
  /\ msgs' = msgs + 1
  /\ ev' = [Ev(IF p = "obj" THEN "subscribeThrew" ELSE "subscribe", c, name,
                Len(comps) + 1) EXCEPT !.p = p]
  /\ \/ /\ uSlot' = ConstructSlots(c, name)
        /\ nObs' = ConstructNObs(name)
        /\ IF p = "obj"
           THEN /\ comps' = Append(comps, Constructed(c, name, p))
                /\ UNCHANGED clientSubs
           ELSE /\ comps' = Append(comps, Subscribed(Constructed(c, name, p),
                                                     c, uSlot'))
                /\ clientSubs' = [clientSubs EXCEPT ![c] =
                                    Append(@, [name |-> name,
                                               sub |-> Len(comps) + 1])]
        /\ Survives
        /\ UNCHANGED <<ws, muts>>
     \/ p = "obj" /\ Exits
  /\ UNCHANGED <<gVal, gObs, ncalls, fires>>

\* x.sub.unsubscribe() for every handle in K: the observer leaves subj,
\* activeSubs is decremented, and at zero the dependency handles are released.
UnsubscribedComps(K) ==
  [k \in DOMAIN comps |->
     IF k \in K
     THEN [comps[k] EXCEPT !.sub = FALSE, !.cancelled = TRUE,
                           !.activeSubs = @ - 1]
     ELSE comps[k]]
ReleasedOfAll(K) == {k \in DOMAIN comps : K # {}}
Released(K) == {k \in K : UnsubscribedComps(K)[k].activeSubs = 0}
UnsubscribeAll(K) ==
  /\ comps' = UnsubscribedComps(K)
  /\ nObs' = Without(nObs, Released(K))
  /\ uSlot' = [s \in Conns |-> [uSlot[s] EXCEPT !.obs = Without(@, Released(K))]]

\* The handles the unsubscribe branch cancels:
\* subs.filter(s => s.name === msg.name)
Matching(c, name) ==
  {clientSubs[c][i].sub : i \in {j \in 1..Len(clientSubs[c]) :
                                   clientSubs[c][j].name = name}}

\* unsubscribe frame naming a query.
OnUnsubscribe(c, name) ==
  /\ LibFrame
  /\ Receives(c)
  /\ name \in Queries
  /\ msgs' = msgs + 1
  /\ UnsubscribeAll(Matching(c, name))
  /\ clientSubs' = [clientSubs EXCEPT ![c] =
                      SelectSeq(@, LAMBDA s : s.name # name)]
  /\ ev' = Ev("unsubscribe", c, name, 0)
  /\ UNCHANGED <<ws, gVal, gObs, muts, ncalls, fires, proc>>

\* mutation(opts) called with args: schema.parse(args) throws on args the
\* schema rejects; otherwise opts.fn(parsed) runs up to its first await.
\* login is sessionUser.set(username), synchronous, under the ambient session.
MutationInvoked(c, name, p) ==
  IF name = "login" THEN SessionSetInvoked(uSlot, c, p) ELSE <<>>
MutationSlots(c, name, p) ==
  IF name = "login" THEN SessionSet(uSlot, c, p) ELSE uSlot

\* mutation frame naming a mutation: await fn(msg.params).  A rejection is
\* not caught by the handler, which writes nothing.
OnMutation(c, name, p) ==
  /\ LibFrame
  /\ Receives(c)
  /\ name \in Mutations /\ p \in ParamsOf(name)
  /\ msgs' = msgs + 1
  /\ IF SchemaAccepts(name, p)
     THEN /\ uSlot' = MutationSlots(c, name, p)
          /\ comps' = RunAll(comps, MutationInvoked(c, name, p), c, uSlot')
          /\ muts' = muts \cup {[conn |-> c, name |-> name, rid |-> msgs + 1]}
          /\ ev' = [Ev("mutation", c, name, msgs + 1) EXCEPT
                      !.p = p, !.invoked = MutationInvoked(c, name, p)]
          /\ UNCHANGED <<ws, clientSubs, nObs, proc>>
     ELSE /\ ev' = [Ev("mutationRejected", c, name, msgs + 1) EXCEPT !.p = p]
          /\ \/ Survives /\ UNCHANGED <<ws, clientSubs, comps, nObs, uSlot, muts>>
             \/ Exits
  /\ UNCHANGED <<gVal, gObs, ncalls, fires>>

\* The awaited mutation settles.  addItem awaits an insert into the database,
\* which can fail; the handler resumes and writes the reply if the socket is
\* still open.  A rejection is not caught.
MutationSettles(m, ok) ==
  /\ LibFrame
  /\ Up /\ m \in muts
  /\ ok \/ m.name = "addItem"
  /\ \/ /\ muts' = muts \ {m}
        /\ Survives
        /\ UNCHANGED <<ws, clientSubs, comps, nObs, uSlot>>
     \/ ~ok /\ Exits
  /\ ev' = [Ev(IF ok THEN "mutationDone" ELSE "mutationFailed", m.conn,
                m.name, m.rid) EXCEPT
              !.sent = IF ok
                       THEN SendIfOpen(m.conn, Frame(m.conn, "mutationResult",
                                                     m.name, "result", m.rid))
                       ELSE <<>>]
  /\ UNCHANGED <<gVal, gObs, msgs, ncalls, fires>>

\* The adapter behind notifier N observes a change: N.notifyChanges() outside
\* of any session context.
ExternalNotify ==
  /\ LibFrame
  /\ Dispatch /\ fires < MaxFires
  /\ fires' = fires + 1
  /\ comps' = RunAll(comps, SubjectNext(nObs, "void"), NoSession, uSlot)
  /\ ev' = [Ev("notify", NoSession, "", 0) EXCEPT
              !.invoked = SubjectNext(nObs, "void")]
  /\ UNCHANGED <<ws, clientSubs, nObs, uSlot, gVal, gObs, muts, msgs, ncalls,
                 proc>>

\* A subj that keeps invoking a callback after its unsubscribe.
CallbacksAfterCancel(k) == {k}

\* subj.next(result) of derived store k: the subscriber callback is invoked
\* if it is still subscribed to subj.
Callbacks(k) == IF comps[k].sub THEN {k} ELSE {}

\* The server's callback writes an update if its socket is open.
UpdateFrames(k) ==
  IF k \in Callbacks(k)
  THEN SendIfOpen(comps[k].conn,
                  Frame(comps[k].conn, "update", comps[k].name, comps[k].val, 0))
  ELSE <<>>

\* A finally block that drops the pending request.
FinallyNoRerun(cp, slots) == [cp EXCEPT !.running = FALSE, !.pending = FALSE]

\* finally { running = false; if (pending) { pending = false; run(); } }
Finally(cp, slots) ==
  IF cp.pending
  THEN run([cp EXCEPT !.running = FALSE, !.pending = FALSE], cp.ctx, slots)
  ELSE [cp EXCEPT !.running = FALSE]

\* The awaited compute function of computation k settles.  Only the database
\* read of itemsList can fail; a failure skips subj.next.
ComputeSettles(k, ok) ==
  /\ LibFrame
  /\ Up /\ k \in DOMAIN comps
  /\ comps[k].running
  /\ ok \/ comps[k].name = "itemsList"
  /\ \/ /\ comps' = [comps EXCEPT ![k] = Finally(@, uSlot)]
        /\ Survives
        /\ UNCHANGED <<ws, clientSubs, nObs, uSlot, muts>>
     \/ ~ok /\ Exits
  /\ ev' = [Ev(IF ok THEN "computed" ELSE "computeFailed", comps[k].conn,
                comps[k].name, k) EXCEPT
              !.sent = IF ok THEN UpdateFrames(k) ELSE <<>>,
              !.cb = IF ok THEN Callbacks(k) ELSE {},
              !.absorbed = comps[k].missed]
  /\ UNCHANGED <<gVal, gObs, msgs, ncalls, fires>>

\* A close handler that cancels nothing.
OwnedNone(c) == {}

\* The handles the close handler cancels: for (const s of subs)
Owned(c) == {clientSubs[c][i].sub : i \in 1..Len(clientSubs[c])}

\* ws.on("close")
Close(c) ==
  /\ LibFrame
  /\ Dispatch /\ ws[c] = "open"
  /\ ws' = [ws EXCEPT ![c] = "closed"]
  /\ UnsubscribeAll(Owned(c))
  /\ clientSubs' = [d \in DOMAIN clientSubs \ {c} |-> clientSubs[d]]
  /\ ev' = Ev("close", c, "", 0)
  /\ UNCHANGED <<gVal, gObs, muts, msgs, ncalls, fires, proc>>

(* ------------------ the query of the closure variant ------------------ *)
\* query(opts)(args).subscribe(notify) keeps active, running and pending in
\* the closure of one subscription (field sub is active); it subscribes to
\* opts.deps at subscribe time and validates args inside run().

\* opts.schema.parse(args) of a query: itemsList declares z.undefined(),
\* sessionUser declares no schema.
QueryAccepts(name, p) == name # "itemsList" \/ p = "none"

\* run(): returns at once if the subscription is not active; a call while
\* running sets pending; otherwise args are parsed and, if valid, the compute
\* function is invoked and awaited.  A parse error is caught in the same task.
queryRun(cp, ctx, slots) ==
  IF ~cp.sub THEN cp
  ELSE IF cp.running THEN [cp EXCEPT !.pending = TRUE, !.missed = @ + 1]
  ELSE IF ~QueryAccepts(cp.name, cp.params) THEN cp
  ELSE [cp EXCEPT !.running = TRUE, !.missed = 0, !.ctx = ctx,
                  !.val = Compute(cp.name, ctx, slots)]

\* Does this call of run() apply the validator, and does the validator throw?
queryParses(cp) == cp.sub /\ ~cp.running
queryRejects(cp) == queryParses(cp) /\ ~QueryAccepts(cp.name, cp.params)

\* catch (err) { if (active) notify(Promise.reject(err)) }: the server's
\* callback serialises the rejected promise as the data of an update frame.
RejectFrames(cp) ==
  SendIfOpen(cp.conn, Frame(cp.conn, "update", cp.name, "{}", 0))

\* The dependency callbacks () => { if (!active) return; run(); } of the
\* invoked observers, in order.
RECURSIVE QueryRunAll(_, _, _, _)
QueryRunAll(cs, inv, ctx, slots) ==
  IF inv = <<>> THEN cs
  ELSE QueryRunAll([cs EXCEPT ![Head(inv).sub] = queryRun(@, ctx, slots)],
                   Tail(inv), ctx, slots)

\* The frames written by the runs of the invoked observers whose validator
\* throws, in order, and the number of validator applications.
RECURSIVE QueryRejectAll(_, _)
QueryRejectAll(cs, inv) ==
  IF inv = <<>> THEN <<>>
  ELSE (IF queryRejects(cs[Head(inv).sub]) THEN RejectFrames(cs[Head(inv).sub])
        ELSE <<>>) \o QueryRejectAll(cs, Tail(inv))
RECURSIVE QueryParseAll(_, _)
QueryParseAll(cs, inv) ==
  IF inv = <<>> THEN 0
  ELSE (IF queryParses(cs[Head(inv).sub]) THEN 1 ELSE 0)
       + QueryParseAll(cs, Tail(inv))

\* subscribe(notify): active = true, the declared dependencies are
\* subscribed, then run() is called.
QuerySubscribed(c, name, p) ==
  queryRun([NewComp(c, name, p) EXCEPT !.sub = TRUE, !.activeSubs = 1], c,
           ConstructSlots(c, name))

\* subscribe frame naming a query: fn(msg.params) has a subscribe member, the
\* handle is recorded.  A rejected promise handed to notify has no handler.
OnSubscribeQuery(c, name, p) ==
  /\ LibFrame
  /\ Receives(c)
  /\ name \in Queries /\ p \in ParamsOf(name)
  /\ msgs' = msgs + 1
  /\ ev' = [Ev("subscribe", c, name, Len(comps) + 1) EXCEPT
              !.p = p, !.parsed = 1,
              !.threw = ~QueryAccepts(name, p),
              !.sent = IF QueryAccepts(name, p) THEN <<>>
                       ELSE RejectFrames(NewComp(c, name, p))]
  /\ \/ /\ uSlot' = ConstructSlots(c, name)
        /\ nObs' = ConstructNObs(name)
        /\ comps' = Append(comps, QuerySubscribed(c, name, p))
        /\ clientSubs' = [clientSubs EXCEPT ![c] =
                            Append(@, [name |-> name, sub |-> Len(comps) + 1])]
        /\ Survives
        /\ UNCHANGED <<ws, muts>>
     \/ ~QueryAccepts(name, p) /\ Exits
  /\ UNCHANGED <<gVal, gObs, ncalls, fires>>

\* The adapter behind notifier N observes a change.
QueryNotify ==
  /\ LibFrame
  /\ Dispatch /\ fires < MaxFires
  /\ fires' = fires + 1
  /\ ev' = [Ev("notify", NoSession, "", 0) EXCEPT
              !.invoked = SubjectNext(nObs, "void"),
              !.parsed = QueryParseAll(comps, SubjectNext(nObs, "void")),
              !.threw = QueryRejectAll(comps, SubjectNext(nObs, "void")) # <<>>,
              !.sent = QueryRejectAll(comps, SubjectNext(nObs, "void"))]
  /\ \/ /\ comps' = QueryRunAll(comps, SubjectNext(nObs, "void"), NoSession,
                                uSlot)
        /\ Survives
        /\ UNCHANGED <<ws, clientSubs, nObs, uSlot, muts>>
     \/ /\ \E i \in 1..Len(nObs) : queryRejects(comps[nObs[i]])
        /\ Exits
  /\ UNCHANGED <<gVal, gObs, msgs, ncalls>>

\* finally { running = false; if (!active) return;
\*           if (pending) { pending = false; run(); } }
QueryFinally(cp, slots) ==
  IF cp.sub /\ cp.pending
  THEN queryRun([cp EXCEPT !.running = FALSE, !.pending = FALSE], cp.ctx, slots)
  ELSE [cp EXCEPT !.running = FALSE]

\* The awaited compute function of subscription k settles.  While active, a
\* value is handed to notify and a failure is handed to notify as a rejected
\* promise, which has no handler; after unsubscribe both are dropped.
QuerySettles(k, ok) ==
  /\ LibFrame
  /\ Up /\ k \in DOMAIN comps
  /\ comps[k].running
  /\ ok \/ comps[k].name = "itemsList"
  /\ ev' = [Ev(IF ok THEN "computed" ELSE "computeFailed", comps[k].conn,
                comps[k].name, k) EXCEPT
              !.sent = IF ok THEN UpdateFrames(k)
                       ELSE IF comps[k].sub THEN RejectFrames(comps[k])
                       ELSE <<>>,
              !.cb = Callbacks(k),
              !.parsed = IF comps[k].sub /\ comps[k].pending THEN 1 ELSE 0,
              !.absorbed = comps[k].missed]
  /\ \/ /\ comps' = [comps EXCEPT ![k] = QueryFinally(@, uSlot)]
        /\ Survives
        /\ UNCHANGED <<ws, clientSubs, nObs, uSlot, muts>>
     \/ ~ok /\ comps[k].sub /\ Exits
  /\ UNCHANGED <<gVal, gObs, msgs, ncalls, fires>>

(* ------------------- direct use of the store API ---------------------- *)
\* Application code calls globalStore G and session store U directly, the
\* latter under an ambient session a.  Subscribers only record what they get.
Values == {"alice", "bob"}
Toggle(prev) == IF prev = "alice" THEN "bob" ELSE "alice"
Calls == ncalls < MaxCalls /\ ncalls' = ncalls + 1
StoreFrame ==
  UNCHANGED <<ws, clientSubs, comps, nObs, muts, msgs, fires, proc, dObs, ds,
              timers, since, client, fsn, sq, pgn>>

\* D = derivedNotifier([G]).  Every D.subscribe(fn) subscribes the callback
\* () => subj.next() to G (observer "D" of G) and then fn to D's subj.
DerivedSource == "D"

\* The observers of D reached when G invokes the observers inv: one
\* subj.next() of D for every callback of D among them.
RECURSIVE DerivedInvoked(_, _)
DerivedInvoked(inv, obs) ==
  IF inv = <<>> THEN <<>>
  ELSE (IF Head(inv).sub = DerivedSource THEN SubjectNext(obs, "void")
        ELSE <<>>) \o DerivedInvoked(Tail(inv), obs)

\* globalStore.subscribe(fn): a BehaviorSubject emits its value to the new
\* observer.
GlobalSubscribe(o) ==
  /\ Calls
  /\ o \notin Range(gObs)
  /\ gObs' = Append(gObs, o)
  /\ ev' = [Ev("gSubscribe", NoSession, "G", 0) EXCEPT
              !.invoked = <<[sub |-> o, val |-> gVal]>>]
  /\ UNCHANGED <<gVal, uSlot>> /\ StoreFrame

\* globalStore.set(val): subj.next(val)
GlobalSet(v) ==
  /\ Calls
  /\ gVal' = v
  /\ ev' = [Ev("gSet", NoSession, "G", 0) EXCEPT
              !.invoked = SubjectNext(gObs, v),
              !.notified = DerivedInvoked(SubjectNext(gObs, v), dObs)]
  /\ UNCHANGED <<gObs, uSlot>> /\ StoreFrame

\* globalStore.mutate(fn): subj.next(fn(subj.getValue()))
GlobalMutate ==
  /\ Calls
  /\ gVal' = Toggle(gVal)
  /\ ev' = [Ev("gMutate", NoSession, "G", 0) EXCEPT
              !.invoked = SubjectNext(gObs, Toggle(gVal)),
              !.notified = DerivedInvoked(SubjectNext(gObs, Toggle(gVal)), dObs)]
  /\ UNCHANGED <<gObs, uSlot>> /\ StoreFrame

\* The handle returned by globalStore.subscribe: sub.unsubscribe()
GlobalUnsubscribe(o) ==
  /\ Calls
  /\ o \in Range(gObs)
  /\ gObs' = Without(gObs, {o})
  /\ ev' = Ev("gUnsubscribe", NoSession, "G", 0)
  /\ UNCHANGED <<gVal, uSlot>> /\ StoreFrame

\* sessionStore.subscribe(fn) under session a
StoreSubscribe(a, o) ==
  /\ Calls
  /\ o \notin Range(uSlot[a].obs)
  /\ uSlot' = SessionSubscribe(uSlot, a, o)
  /\ ev' = [Ev("uSubscribe", a, "U", 0) EXCEPT
              !.invoked = <<[sub |-> o, val |-> current(uSlot, a)[a].val]>>]
  /\ UNCHANGED <<gVal, gObs>> /\ StoreFrame

\* sessionStore.set(val) under session a
StoreSet(a, v) ==
  /\ Calls
  /\ uSlot' = SessionSet(uSlot, a, v)
  /\ ev' = [Ev("uSet", a, "U", 0) EXCEPT
              !.invoked = SessionSetInvoked(uSlot, a, v)]
  /\ UNCHANGED <<gVal, gObs>> /\ StoreFrame

\* sessionStore.mutate(fn) under session a
StoreMutate(a) ==
  /\ Calls
  /\ uSlot' = SessionSet(uSlot, a, Toggle(current(uSlot, a)[a].val))
  /\ ev' = [Ev("uMutate", a, "U", 0) EXCEPT
              !.invoked = SessionSetInvoked(uSlot, a, Toggle(current(uSlot, a)[a].val))]
  /\ UNCHANGED <<gVal, gObs>> /\ StoreFrame

\* The handle returned by sessionStore.subscribe under session a
StoreUnsubscribe(a, o) ==
  /\ Calls
  /\ o \in Range(uSlot[a].obs)
  /\ uSlot' = [uSlot EXCEPT ![a].obs = Without(@, {o})]
  /\ ev' = Ev("uUnsubscribe", a, "U", 0)
  /\ UNCHANGED <<gVal, gObs>> /\ StoreFrame

\* A session id that is made up when none is bound.
SessionOrDefault(a) == IF a = NoSession THEN "c1" ELSE a

\* getCurrentSessionId() under ambient session a: the bound id; with no
\* store bound it throws (NoSession stands for the throw).
getCurrentSessionId(a) == a

\* sessionStore.get / set / mutate / subscribe called with no session bound:
\* the argument getCurrentSessionId() is evaluated before the internal store
\* is entered.
StoreOps == {"get", "set", "mutate", "subscribe"}
StoreOutsideSession(op, o, v) ==
  /\ Calls
  /\ op \in StoreOps
  /\ IF getCurrentSessionId(NoSession) = NoSession
     THEN /\ ev' = [Ev("outside", NoSession, "U", 0) EXCEPT
                      !.p = op, !.threw = TRUE]
          /\ UNCHANGED uSlot
     ELSE /\ ev' = [Ev("outside", NoSession, "U", 0) EXCEPT !.p = op]
          /\ uSlot' =
               IF op = "set"
               THEN SessionSet(uSlot, getCurrentSessionId(NoSession), v)
               ELSE IF op = "subscribe"
               THEN SessionSubscribe(uSlot, getCurrentSessionId(NoSession), o)
               ELSE current(uSlot, getCurrentSessionId(NoSession))
  /\ UNCHANGED <<gVal, gObs>> /\ StoreFrame

(* ------------------- direct use of the notifiers ---------------------- *)
NotifierFrame ==
  UNCHANGED <<ws, clientSubs, comps, uSlot, gVal, muts, msgs, fires, proc, ds,
              timers, since, client, fsn, sq, pgn>>

\* globalNotifier.subscribe(fn) on N: a Subject emits nothing on subscribe.
NotifierSubscribe(o) ==
  /\ Calls
  /\ o \notin Range(nObs)
  /\ nObs' = Append(nObs, o)
  /\ ev' = [Ev("nSubscribe", NoSession, "N", 0) EXCEPT !.p = o]
  /\ UNCHANGED <<gObs, dObs>> /\ NotifierFrame

\* N.notifyChanges(): subj.next()
NotifierNotify ==
  /\ Calls
  /\ ev' = [Ev("nNotify", NoSession, "N", 0) EXCEPT
              !.invoked = SubjectNext(nObs, "void")]
  /\ UNCHANGED <<nObs, gObs, dObs>> /\ NotifierFrame

\* A derived notifier that subscribes fn to its subj before its sources.
DerivedInitialAfterSubscribe(obs, o) == SubjectNext(Append(obs, o), "void")

\* The observers of D invoked during D.subscribe(fn): the source G emits its
\* value to the new callback, which calls subj.next() while fn is not yet
\* subscribed to subj.
DerivedInitial(obs, o) == SubjectNext(obs, "void")

\* derivedNotifier.subscribe(fn) on D
DerivedSubscribe(o) ==
  /\ Calls
  /\ o \notin Range(dObs)
  /\ gObs' = Append(gObs, DerivedSource)
  /\ dObs' = Append(dObs, o)
  /\ ev' = [Ev("dSubscribe", NoSession, "D", 0) EXCEPT
              !.p = o,
              !.invoked = <<[sub |-> DerivedSource, val |-> gVal]>>,
              !.notified = DerivedInitial(dObs, o)]
  /\ UNCHANGED nObs /\ NotifierFrame

\* D.notifyChanges(): subj.next()
DerivedNotify ==
  /\ Calls
  /\ ev' = [Ev("dNotify", NoSession, "D", 0) EXCEPT
              !.notified = SubjectNext(dObs, "void")]
  /\ UNCHANGED <<nObs, gObs, dObs>> /\ NotifierFrame

NextStore ==
  \/ \E o \in Subscribers : NotifierSubscribe(o)
  \/ NotifierNotify
  \/ \E o \in Subscribers : DerivedSubscribe(o)
  \/ DerivedNotify
  \/ \E op \in StoreOps, o \in Subscribers, v \in Values :
       StoreOutsideSession(op, o, v)
  \/ \E o \in Subscribers : GlobalSubscribe(o)
  \/ \E v \in Values : GlobalSet(v)
  \/ GlobalMutate
  \/ \E o \in Subscribers : GlobalUnsubscribe(o)
  \/ \E a \in Conns, o \in Subscribers : StoreSubscribe(a, o)
  \/ \E a \in Conns, v \in Values : StoreSet(a, v)
  \/ \E a \in Conns : StoreMutate(a)
  \/ \E a \in Conns, o \in Subscribers : StoreUnsubscribe(a, o)

SpecStore == Init /\ [][NextStore]_vars

(* --------------- derived store S of application code ------------------ *)
\* S = derivedStore({ deps: [N], fn, cache, debounce }), where fn reads the
\* data behind N (src).  ds holds the locals of the closure: lastValue,
\* activeSubs, running, pending, the value and observers of subj, and whether
\* depSubs are still subscribed.
CacheOpts == {"none", "finite", "inf"}
CacheMs == DebounceMs + 1
hasCache(d) == d.cache # "none"
DsFrame ==
  UNCHANGED <<ws, clientSubs, comps, nObs, uSlot, gVal, gObs, muts, msgs,
              fires, proc, dObs, client, fsn, sq, pgn>>

\* execute(): a call while running only sets pending.
dsExecute(d) ==
  IF d.running THEN [d EXCEPT !.pending = TRUE]
  ELSE [d EXCEPT !.running = TRUE, !.val = d.src]

\* A run() that leaves the timer of the previous call pending.
keepTimeout(tm) == tm

\* if (timeout) clearTimeout(timeout): timeout is the handle of the timer
\* set by the previous run(), the only pending timer of kind "execute".
clearTimeout(tm) == SelectSeq(tm, LAMBDA t : t.kind # "execute")

\* run(): with debounce the timer is restarted, without it execute() is
\* called at once.
dsRun(d) == IF d.debounce > 0 THEN d ELSE dsExecute(d)
dsRunTimers(d, tm) ==
  IF d.debounce > 0
  THEN Append(clearTimeout(tm), [kind |-> "execute", left |-> d.debounce])
  ELSE tm

\* derivedStore(opts): the dependencies are subscribed.
DsConstruct(cache, debounce) ==
  /\ Calls
  /\ ~ds.made
  /\ ds' = [ds EXCEPT !.made = TRUE, !.cache = cache, !.debounce = debounce,
                      !.depHeld = TRUE]
  /\ ev' = [Ev("dsConstruct", NoSession, "S", 0) EXCEPT !.p = cache]
  /\ UNCHANGED <<timers, since>> /\ DsFrame

\* A subscribe that ignores the cached value.
SubscribeIgnoresCache(d) == FALSE

\* if (hasCache && lastValue !== undefined)
SubscribeUsesCache(d) == hasCache(d) /\ d.lastValue # NoVal

\* S.subscribe(fn): activeSubs++; fn(lastValue) or run(); then fn is
\* subscribed to subj, which emits its value if it is a BehaviorSubject that
\* holds one.
DsSubscribe(o) ==
  /\ Calls
  /\ ds.made /\ o \notin Range(ds.obs)
  /\ ds' = [(IF SubscribeUsesCache(ds) THEN ds ELSE dsRun(ds)) EXCEPT
              !.activeSubs = @ + 1, !.obs = Append(@, o)]
  /\ timers' = IF SubscribeUsesCache(ds) THEN timers
               ELSE dsRunTimers(ds, timers)
  /\ since' = IF SubscribeUsesCache(ds) THEN since ELSE 0
  /\ ev' = [Ev("dsSubscribe", NoSession, "S", 0) EXCEPT
              !.p = o,
              !.invoked =
                 (IF SubscribeUsesCache(ds)
                  THEN <<[sub |-> o, val |-> ds.lastValue]>> ELSE <<>>)
                 \o (IF hasCache(ds) /\ ds.subjVal # NoVal
                     THEN <<[sub |-> o, val |-> ds.subjVal]>> ELSE <<>>)]
  /\ DsFrame

\* The handle of S.subscribe: sub.unsubscribe(); activeSubs--; at zero the
\* dependencies are released.
DsUnsubscribe(o) ==
  /\ Calls
  /\ o \in Range(ds.obs)
  /\ ds' = [ds EXCEPT !.obs = Without(@, {o}), !.activeSubs = @ - 1,
                      !.depHeld = @ /\ ds.activeSubs # 1,
                      !.cancelled = @ \cup {o}]
  /\ ev' = [Ev("dsUnsubscribe", NoSession, "S", 0) EXCEPT !.p = o]
  /\ UNCHANGED <<timers, since>> /\ DsFrame

\* The same handle called again: sub.unsubscribe() does nothing any more,
\* the rest of the function runs as before.
DsUnsubscribeAgain(o) ==
  /\ Calls
  /\ o \in ds.cancelled
  /\ ds' = [ds EXCEPT !.activeSubs = @ - 1,
                      !.depHeld = @ /\ ds.activeSubs # 1]
  /\ ev' = [Ev("dsUnsubscribeAgain", NoSession, "S", ds.activeSubs) EXCEPT
              !.p = o]
  /\ UNCHANGED <<timers, since>> /\ DsFrame

\* The data behind N changes and N.notifyChanges() is called: the dependency
\* callback of S, if still subscribed, calls run().
DsFire ==
  /\ Calls
  /\ ds.made
  /\ ds' = [(IF ds.depHeld THEN dsRun(ds) ELSE ds) EXCEPT !.src = Toggle(@)]
  /\ timers' = IF ds.depHeld THEN dsRunTimers(ds, timers) ELSE timers
  /\ since' = IF ds.depHeld THEN 0 ELSE since
  /\ ev' = [Ev("dsFire", NoSession, "S", since) EXCEPT
              !.absorbed = IF ds.depHeld /\ ds.debounce > 0
                           THEN Len(timers) - Len(clearTimeout(timers)) ELSE 0]
  /\ DsFrame

\* The awaited fn() of S settles with a value: lastValue is stored (with a
\* finite cache a timer is set that clears it), subj.next(result) invokes
\* the subscribers, and the finally block starts the pending run.
DsSettled ==
  [ds EXCEPT !.lastValue = IF hasCache(ds) THEN ds.val ELSE @,
             !.subjVal = IF hasCache(ds) THEN ds.val ELSE @,
             !.running = FALSE, !.pending = FALSE]
DsSettledTimers ==
  IF ds.cache = "finite"
  THEN Append(timers, [kind |-> "expire", left |-> CacheMs]) ELSE timers
DsSettles ==
  /\ ds.running
  /\ ds' = IF ds.pending THEN dsRun(DsSettled) ELSE DsSettled
  /\ timers' = IF ds.pending THEN dsRunTimers(ds, DsSettledTimers)
               ELSE DsSettledTimers
  /\ since' = IF ds.pending THEN 0 ELSE since
  /\ ev' = [Ev("dsComputed", NoSession, "S", 0) EXCEPT
              !.invoked = SubjectNext(ds.obs, ds.val)]
  /\ UNCHANGED ncalls /\ DsFrame

\* A pending timer whose time has elapsed runs its callback: execute(), or
\* lastValue = undefined.
DsTimer(i) ==
  /\ i \in 1..Len(timers)
  /\ timers[i].left = 0
  /\ timers' = [j \in 1..(Len(timers) - 1) |->
                  IF j < i THEN timers[j] ELSE timers[j + 1]]
  /\ ds' = IF timers[i].kind = "execute" THEN dsExecute(ds)
           ELSE [ds EXCEPT !.lastValue = NoVal]
  /\ ev' = [Ev("dsTimer", NoSession, "S", since) EXCEPT !.p = timers[i].kind]
  /\ UNCHANGED <<ncalls, since>> /\ DsFrame

\* One unit of time passes.  A timer callback never runs early; it can run
\* late.
Tick ==
  /\ \/ since < DebounceMs
     \/ \E i \in 1..Len(timers) : timers[i].left > 0
  /\ timers' = [i \in 1..Len(timers) |->
                  [timers[i] EXCEPT !.left = IF @ > 0 THEN @ - 1 ELSE 0]]
  /\ since' = IF since < DebounceMs THEN since + 1 ELSE since
  /\ ev' = Ev("tick", NoSession, "", 0)
  /\ UNCHANGED <<ncalls, ds>> /\ DsFrame

NextDerived ==
  \/ \E cache \in CacheOpts, debounce \in {0, DebounceMs} :
       DsConstruct(cache, debounce)
  \/ \E o \in Subscribers : DsSubscribe(o)
  \/ \E o \in Subscribers : DsUnsubscribe(o)
  \/ DsFire
  \/ DsSettles
  \/ \E i \in 1..Len(timers) : DsTimer(i)
  \/ Tick

SpecDerived == Init /\ [][NextDerived]_vars

\* The same, with callers that call the unsubscribe of a handle twice.
NextCancel ==
  \/ NextDerived
  \/ \E o \in Subscribers : DsUnsubscribeAgain(o)

SpecCancel == Init /\ [][NextCancel]_vars

(* ------------- EndpointsWSClient (packages/client-ws) ------------------ *)
\* A params argument is undefined or an object; ents lists the members of
\* the object in insertion order, which is the order JSON.stringify keeps.
Undefined == [def |-> FALSE, ents |-> <<>>]
Obj(ents) == [def |-> TRUE, ents |-> ents]
ClientParams ==
  {Undefined, Obj(<<>>), Obj(<<<<"a", "1">>, <<"b", "2">>>>),
   Obj(<<<<"b", "2">>, <<"a", "1">>>>)}
ClientCbs == {"f", "g"}
Endpoint == "itemsList"

\* params ?? {}
OrEmpty(params) == IF params.def THEN params ELSE Obj(<<>>)

\* JSON.stringify(object): the members as text, in insertion order.
JSONstringify(obj) == obj.ents

\* const key = endpoint + JSON.stringify(params ?? {})
SubscriptionKey(endpoint, params) ==
  <<endpoint, JSONstringify(OrEmpty(params))>>

ClientFrame ==
  UNCHANGED <<ws, clientSubs, comps, nObs, uSlot, gVal, gObs, muts, msgs,
              ncalls, fires, proc, dObs, ds, timers, since, fsn, sq, pgn>>

ClientMsg(type, endpoint, params) ==
  [type |-> type, endpoint |-> endpoint, params |-> params]

\* ws.onopen, and the once-listeners added while the socket was connecting
ClientOpen ==
  /\ ~client.ready
  /\ client' = [client EXCEPT !.ready = TRUE, !.out = @ \o client.queued,
                              !.queued = <<>>]
  /\ ev' = Ev("clientOpen", NoSession, "", 0)
  /\ ClientFrame

\* subscribe(endpoint, params, cb); the closure it returns is kept in handles
ClientSubscribe(endpoint, params, cb) ==
  LET key == SubscriptionKey(endpoint, params)
      fresh == key \notin DOMAIN client.subscriptions
      msg == ClientMsg("subscribe", endpoint, params)
  IN  /\ Len(client.out) + Len(client.queued) < MaxOut
      /\ client' =
           [client EXCEPT
              !.subscriptions =
                 [k \in DOMAIN client.subscriptions \cup {key} |->
                    IF k = key
                    THEN (IF fresh THEN {} ELSE client.subscriptions[k])
                         \cup {cb}
                    ELSE client.subscriptions[k]],
              !.out = IF fresh /\ client.ready THEN Append(@, msg) ELSE @,
              !.queued = IF fresh /\ ~client.ready THEN Append(@, msg) ELSE @,
              !.handles = @ \cup {[endpoint |-> endpoint, params |-> params,
                                   cb |-> cb]}]
      /\ ev' = [Ev("clientSubscribe", NoSession, endpoint, 0) EXCEPT
                  !.cb = {cb}, !.made = IF fresh THEN 1 ELSE 0]
      /\ ClientFrame

\* the function returned by subscribe; nothing stops a second call of it
ClientUnsubscribe(h) ==
  LET key == SubscriptionKey(h.endpoint, h.params)
      set == client.subscriptions[key] \ {h.cb}
      msg == ClientMsg("unsubscribe", h.endpoint, h.params)
  IN  /\ h \in client.handles
      /\ Len(client.out) + Len(client.queued) < MaxOut
      /\ client' =
           [client EXCEPT
              !.subscriptions[key] = set,
              !.out = IF set = {} /\ client.ready THEN Append(@, msg) ELSE @]
      /\ ev' = [Ev("clientUnsubscribe", NoSession, h.endpoint, 0) EXCEPT
                  !.cb = {h.cb}]
      /\ ClientFrame

NextClient ==
  \/ ClientOpen
  \/ \E params \in ClientParams, cb \in ClientCbs :
       ClientSubscribe(Endpoint, params, cb)
  \/ \E h \in client.handles : ClientUnsubscribe(h)

SpecClient == Init /\ [][NextClient]_vars

(* --------------- createFsNotifier (packages/server-fs) ------------------ *)
\* fsn[path] is the closure of the source made by notifierFor(path): subs,
\* whether watcher is non-null, the number of fs watchers of the path that
\* are open, and the functions for which subscribe has returned a handle.
FsFns == {"f", "g"}

FsFrame ==
  UNCHANGED <<ws, clientSubs, comps, nObs, uSlot, gVal, gObs, muts, msgs,
              ncalls, fires, proc, dObs, ds, timers, since, client, sq, pgn>>

\* watcher = watch(path, ...)
watch(n) == [n EXCEPT !.watcher = TRUE, !.open = @ + 1]

watcherDropped(n) == [n EXCEPT !.watcher = FALSE]

\* watcher.close(); watcher = null
watcherClose(n) == [n EXCEPT !.watcher = FALSE, !.open = @ - 1]

\* src.subscribe(fn)
FsSubscribe(path, fn) ==
  LET n == [fsn[path] EXCEPT !.subs = @ \cup {fn}, !.handles = @ \cup {fn}]
  IN  /\ fsn' = [fsn EXCEPT ![path] = IF ~n.watcher THEN watch(n) ELSE n]
      /\ ev' = [Ev("fsSubscribe", NoSession, path, 0) EXCEPT
                  !.cb = {fn}, !.invoked = <<fn>>,
                  !.made = IF n.watcher THEN 0 ELSE 1]
      /\ FsFrame

\* unsubscribe of a handle returned by src.subscribe(fn), called any number
\* of times
FsUnsubscribe(path, fn) ==
  LET n == [fsn[path] EXCEPT !.subs = @ \ {fn}]
  IN  /\ fn \in fsn[path].handles
      /\ fsn' = [fsn EXCEPT ![path] =
                   IF n.subs = {} /\ n.watcher THEN watcherClose(n) ELSE n]
      /\ ev' = [Ev("fsUnsubscribe", NoSession, path, 0) EXCEPT
                  !.cb = {fn}, !.absorbed = IF fn \in fsn[path].subs THEN 0 ELSE 1]
      /\ FsFrame

\* the listener given to watch(): a change of the path reported by an open
\* watcher
FsChange(path) ==
  /\ fsn[path].open > 0
  /\ ev' = [Ev("fsChange", NoSession, path, 0) EXCEPT !.cb = fsn[path].subs]
  /\ UNCHANGED fsn /\ FsFrame

\* src.notifyChanges()
FsNotifyChanges(path) ==
  /\ ev' = [Ev("fsNotifyChanges", NoSession, path, 0) EXCEPT
              !.cb = fsn[path].subs]
  /\ UNCHANGED fsn /\ FsFrame

NextFs ==
  \/ \E path \in Paths, fn \in FsFns : FsSubscribe(path, fn)
  \/ \E path \in Paths, fn \in FsFns : FsUnsubscribe(path, fn)
  \/ \E path \in Paths : FsChange(path)
  \/ \E path \in Paths : FsNotifyChanges(path)

SpecFs == Init /\ [][NextFs]_vars

(* ------------- the plain query (packages/server/src/index.ts) ----------- *)
\* sq[o] is the closure made by one subscribe call of the query: active,
\* its dependency and whether the subscription to it is held, the number of
\* run() calls started, those whose opts.fn call is still awaited (by their
\* number), and the number of the run whose result was last passed to
\* notify.  The dependency is global store G or notifier N; the store calls a new observer at once with its value.
SqDeps == {"G", "N"}

SqFrame ==
  UNCHANGED <<ws, clientSubs, comps, nObs, uSlot, gVal, gObs, muts, msgs,
              ncalls, proc, dObs, ds, timers, since, client, fsn, pgn>>

\* async function run(): opts.fn() is called and awaited, whatever else runs
sqRun(c) ==
  [c EXCEPT !.started = @ + 1, !.inflight = @ \cup {c.started + 1}]

\* the dependency callback: if (active) run()
sqDepCallback(c) == IF c.active THEN sqRun(c) ELSE c

\* subscribe(notify): the dependencies are subscribed, then run() is called
SqSubscribe(o, dep) ==
  LET c0 == [made |-> TRUE, dep |-> dep, active |-> TRUE, held |-> TRUE,
             inflight |-> {}, started |-> 0, seen |-> 0]
      c1 == IF dep = "G" THEN sqDepCallback(c0) ELSE c0
  IN  /\ ~sq[o].made
      /\ sq' = [sq EXCEPT ![o] = sqRun(c1)]
      /\ ev' = [Ev("sqSubscribe", NoSession, dep, 0) EXCEPT
                  !.cb = {o}, !.made = Cardinality(sqRun(c1).inflight)]
      /\ UNCHANGED fires /\ SqFrame

\* a dependency fires: the callback of every closure that holds it runs
SqFire(dep) ==
  /\ fires < MaxFires
  /\ fires' = fires + 1
  /\ sq' = [o \in SqSubscribers |->
              IF sq[o].held /\ sq[o].dep = dep THEN sqDepCallback(sq[o])
              ELSE sq[o]]
  /\ ev' = [Ev("sqFire", NoSession, dep, 0) EXCEPT
              !.cb = {o \in SqSubscribers : sq[o].held /\ sq[o].dep = dep}]
  /\ SqFrame

\* the awaited opts.fn() of run number r settles: notify(result) unless
\* inactive
SqSettles(o, r) ==
  /\ r \in sq[o].inflight
  /\ sq' = [sq EXCEPT ![o].inflight = @ \ {r},
                      ![o].seen = IF sq[o].active THEN r ELSE @]
  /\ ev' = [Ev("sqSettled", NoSession, "", r) EXCEPT
              !.cb = {o}, !.notified = IF sq[o].active THEN <<o>> ELSE <<>>]
  /\ UNCHANGED fires /\ SqFrame

\* unsubscribe of the handle
SqUnsubscribe(o) ==
  /\ sq[o].made
  /\ sq' = [sq EXCEPT ![o].active = FALSE, ![o].held = FALSE]
  /\ ev' = [Ev("sqUnsubscribe", NoSession, "", 0) EXCEPT !.cb = {o}]
  /\ UNCHANGED fires /\ SqFrame

NextSimple ==
  \/ \E o \in SqSubscribers, dep \in SqDeps : SqSubscribe(o, dep)
  \/ \E dep \in SqDeps : SqFire(dep)
  \/ \E o \in SqSubscribers : \E r \in sq[o].inflight : SqSettles(o, r)
  \/ \E o \in SqSubscribers : SqUnsubscribe(o)

SpecSimple == Init /\ [][NextSimple]_vars

(* ----------------- createPgNotifier (packages/core) --------------------- *)
\* pgn[table] is what the notifier holds for one table: subs, a Set kept in
\* insertion order and shared by subscribers.get(table) and the source made
\* by notifierFor; whether the table is in connectedTables and whether its
\* LISTEN has been issued; and the functions for which subscribe has returned
\* a handle.
PgFns == {"f", "g"}

PgFrame ==
  UNCHANGED <<ws, clientSubs, comps, nObs, uSlot, gVal, gObs, muts, msgs,
              ncalls, fires, proc, dObs, ds, timers, since, client, fsn, sq>>

\* subs.add(fn)
setAdd(subs, fn) == IF fn \in Range(subs) THEN subs ELSE Append(subs, fn)

\* subs.forEach((fn) => Promise.resolve(fn()).catch(console.error))
forEachCall(subs) == subs

\* src.notifyChanges()
pgNotifyChanges(subs) == forEachCall(subs)

\* client.on("notification"): subscribers.get(table)?.forEach(...), then
\* src.notifyChanges()
pgNotification(subs) == forEachCall(subs) \o pgNotifyChanges(subs)

\* src.subscribe(fn)
PgSubscribe(table, fn) ==
  /\ pgn' = [pgn EXCEPT ![table].subs = setAdd(@, fn),
                        ![table].listen = IF @ = "no" THEN "asked" ELSE @,
                        ![table].handles = @ \cup {fn}]
  /\ ev' = [Ev("pgSubscribe", NoSession, table, 0) EXCEPT !.cb = {fn}]
  /\ PgFrame

\* ensureClient().then(() => client.query(`LISTEN ...`))
PgListen(table) ==
  /\ pgn[table].listen = "asked"
  /\ pgn' = [pgn EXCEPT ![table].listen = "on"]
  /\ ev' = Ev("pgListen", NoSession, table, 0)
  /\ PgFrame

\* unsubscribe of a handle: subs.delete(fn)
PgUnsubscribe(table, fn) ==
  /\ fn \in pgn[table].handles
  /\ pgn' = [pgn EXCEPT ![table].subs = Without(@, {fn})]
  /\ ev' = [Ev("pgUnsubscribe", NoSession, table, 0) EXCEPT !.cb = {fn}]
  /\ PgFrame

\* The database sends a notification on the channel of a table.
PgNotification(table) ==
  /\ pgn[table].listen = "on"
  /\ ev' = [Ev("pgNotification", NoSession, table, 0) EXCEPT
              !.invoked = pgNotification(pgn[table].subs)]
  /\ UNCHANGED pgn /\ PgFrame

\* Application code calls notifyChanges() of the source of a table.
PgNotifyChanges(table) ==
  /\ ev' = [Ev("pgNotifyChanges", NoSession, table, 0) EXCEPT
              !.invoked = pgNotifyChanges(pgn[table].subs)]
  /\ UNCHANGED pgn /\ PgFrame

NextPg ==
  \/ \E table \in Tables, fn \in PgFns : PgSubscribe(table, fn)
  \/ \E table \in Tables : PgListen(table)
  \/ \E table \in Tables, fn \in PgFns : PgUnsubscribe(table, fn)
  \/ \E table \in Tables : PgNotification(table)
  \/ \E table \in Tables : PgNotifyChanges(table)

SpecPg == Init /\ [][NextPg]_vars

(* ------------------------- scope of a source --------------------------- *)
\* The sources application code can list as dependencies: global store G,
\* session store U, notifier N and derived notifier D = derivedNotifier([G]).
Sources == {"G", "U", "N", "D"}

\* deps.some(d => d.scope === "session"), over the scopes of the sources
RECURSIVE some(_)
some(scopes) ==
  IF scopes = <<>> THEN FALSE
  ELSE Head(scopes) = "session" \/ some(Tail(scopes))

\* A scope that is "session" unless a dependency is global.
inferScopeUnlessGlobal(scopes) ==
  IF \A i \in DOMAIN scopes : scopes[i] = "session" THEN "session" ELSE "global"

\* scope: deps.some(...) ? "session" : "global"
inferScope(scopes) == IF some(scopes) THEN "session" ELSE "global"

\* The scope field of a source.
scope(src) ==
  IF src = "U" THEN "session"
  ELSE IF src = "D" THEN inferScope(<<"global">>)
  ELSE "global"

ScopeFrame ==
  UNCHANGED <<ws, clientSubs, comps, nObs, uSlot, gVal, gObs, muts, msgs,
              ncalls, fires, proc, dObs, ds, timers, since, client, fsn, sq,
              pgn>>

DepLists == UNION {[1..n -> Sources] : n \in 0..MaxDeps}

\* derivedStore({ deps, fn }): the scope of the store returned
DerivedStoreMade(deps) ==
  /\ ev' = [Ev("derivedStore", NoSession, "", 0) EXCEPT
              !.p = inferScope([i \in DOMAIN deps |-> scope(deps[i])]),
              !.sent = deps]
  /\ ScopeFrame

\* derivedNotifier(sources): the scope of the notifier returned
DerivedNotifierMade(deps) ==
  /\ ev' = [Ev("derivedNotifier", NoSession, "", 0) EXCEPT
              !.p = inferScope([i \in DOMAIN deps |-> scope(deps[i])]),
              !.sent = deps]
  /\ ScopeFrame

NextScope ==
  \/ \E deps \in DepLists : DerivedStoreMade(deps)
  \/ \E deps \in DepLists : DerivedNotifierMade(deps)

SpecScope == Init /\ [][NextScope]_vars

(* --------------------------- specifications ---------------------------- *)
\* A client subscribes to and unsubscribes from the live query itemsList, the
\* adapter fires its notifier, the connection closes.
One == {"c1"}
Next ==
  \/ \E c \in One : Connect(c)
  \/ \E c \in One : OnSubscribe(c, "itemsList", "none")
  \/ \E c \in One : OnUnsubscribe(c, "itemsList")
  \/ ExternalNotify
  \/ \E k \in DOMAIN comps, ok \in BOOLEAN : ComputeSettles(k, ok)
  \/ \E c \in One : Close(c)

Spec == Init /\ [][Next]_vars

\* Two sessions subscribe to sessionUser and log in.
NextSession ==
  \/ \E c \in Conns : Connect(c)
  \/ \E c \in Conns : OnSubscribe(c, "sessionUser", "none")
  \/ \E c \in Conns : OnUnsubscribe(c, "sessionUser")
  \/ \E c \in Conns : OnMutation(c, "login", "alice")
  \/ \E m \in muts : MutationSettles(m, TRUE)
  \/ \E k \in DOMAIN comps : ComputeSettles(k, TRUE)
  \/ \E c \in Conns : Close(c)

SpecSession == Init /\ [][NextSession]_vars

\* Two clients subscribe to the queries while no dependency changes: no
\* mutation is sent and the adapter is silent.
NextQuiet ==
  \/ \E c \in Conns : Connect(c)
  \/ \E c \in Conns, name \in Queries : OnSubscribe(c, name, "none")
  \/ \E k \in DOMAIN comps : ComputeSettles(k, TRUE)
  \/ \E c \in Conns : Close(c)

SpecQuiet == Init /\ [][NextQuiet]_vars

\* Two clients subscribe to and unsubscribe from itemsList, each holding one
\* subscription at a time, the adapter fires its notifier, connections close.
NextPair ==
  \/ \E c \in Conns : Connect(c)
  \/ \E c \in Conns : /\ c \in DOMAIN clientSubs /\ clientSubs[c] = <<>>
                       /\ OnSubscribe(c, "itemsList", "none")
  \/ \E c \in Conns : OnUnsubscribe(c, "itemsList")
  \/ ExternalNotify
  \/ \E k \in DOMAIN comps, ok \in BOOLEAN : ComputeSettles(k, ok)
  \/ \E c \in Conns : Close(c)

SpecPair == Init /\ [][NextPair]_vars

\* Clients send mutation frames, next to a subscription to itemsList.
NextMutation ==
  \/ \E c \in Conns : Connect(c)
  \/ \E c \in Conns : OnSubscribe(c, "itemsList", "none")
  \/ \E c \in Conns, n \in Mutations : \E p \in ParamsOf(n) : OnMutation(c, n, p)
  \/ \E m \in muts, ok \in BOOLEAN : MutationSettles(m, ok)
  \/ \E k \in DOMAIN comps, ok \in BOOLEAN : ComputeSettles(k, ok)
  \/ \E c \in Conns : Close(c)

SpecMutation == Init /\ [][NextMutation]_vars

\* The same, with frames the server cannot serve: unknown action names and a
\* params object.
NextParams ==
  \/ \E c \in One : Connect(c)
  \/ \E c \in One : OnUnknown(c)
  \/ \E c \in One, p \in QueryParams : OnSubscribe(c, "itemsList", p)
  \/ \E c \in One : OnUnsubscribe(c, "itemsList")
  \/ ExternalNotify
  \/ \E k \in DOMAIN comps, ok \in BOOLEAN : ComputeSettles(k, ok)
  \/ \E c \in One : Close(c)

SpecParams == Init /\ [][NextParams]_vars

\* The closure variant of the query behind the same server: a client
\* subscribes to itemsList with and without a params object.
NextQuery ==
  \/ \E c \in One : Connect(c)
  \/ \E c \in One : OnUnknown(c)
  \/ \E c \in One, p \in QueryParams : OnSubscribeQuery(c, "itemsList", p)
  \/ \E c \in One : OnUnsubscribe(c, "itemsList")
  \/ QueryNotify
  \/ \E k \in DOMAIN comps, ok \in BOOLEAN : QuerySettles(k, ok)
  \/ \E c \in One : Close(c)

SpecQuery == Init /\ [][NextQuery]_vars

(* ------------------------------- claims -------------------------------- *)

\* C1.  Session isolation: a set of session store U under session A (the
\* login mutation of connection A) invokes only observers registered under A,
\* leaves the slot of every other session B as it was (so U.get() under B
\* still returns B's own value), and changes no computation of B: B's
\* sessionUser query is neither run nor sent an update.  Every compute call
\* of a sessionUser computation runs under the session that subscribed it.
C1_Isolated ==
  (ev'.op = "mutation" /\ ev'.name = "login") =>
    /\ uSlot'[ev'.conn].val = ev'.p
    /\ \A i \in 1..Len(ev'.invoked) :
         /\ comps[ev'.invoked[i].sub].conn = ev'.conn
         /\ ev'.invoked[i].val = ev'.p
    /\ \A b \in Conns \ {ev'.conn} :
         /\ uSlot'[b] = uSlot[b]
         /\ \A k \in DOMAIN comps : comps[k].conn = b => comps'[k] = comps[k]
C1_OwnSession ==
  \A k \in DOMAIN comps :
    /\ comps[k].running => comps[k].ctx = comps[k].conn
    /\ k \in ev.cb => \A i \in 1..Len(ev.sent) : ev.sent[i].conn = comps[k].conn
C1_SessionIsolation == []C1_OwnSession /\ [][C1_Isolated]_vars

\* C1 witness: c1 logs in while c2 holds a live sessionUser subscription and
\* has never written U.
C1_Witness ==
  /\ ev.op = "mutation" /\ ev.conn = "c1" /\ Len(ev.invoked) >= 1
  /\ uSlot["c1"].val = "alice" /\ uSlot["c2"].exists /\ uSlot["c2"].val = UInit
  /\ \E k \in DOMAIN comps : comps[k].conn = "c2" /\ comps[k].sub

\* C2.  Store fan-out: set(v) and mutate(f) on global store G and on session
\* store U invoke every current subscriber exactly once with the new value,
\* in registration order, within the call.
C2_FanOut ==
  /\ ev.op \in {"gSet", "gMutate"} =>
       /\ Len(ev.invoked) = Len(gObs)
       /\ \A i \in 1..Len(gObs) : ev.invoked[i] = [sub |-> gObs[i], val |-> gVal]
  /\ ev.op \in {"uSet", "uMutate"} =>
       /\ Len(ev.invoked) = Len(uSlot[ev.conn].obs)
       /\ \A i \in 1..Len(uSlot[ev.conn].obs) :
            ev.invoked[i] = [sub |-> uSlot[ev.conn].obs[i],
                             val |-> uSlot[ev.conn].val]

\* C2 witness: a set or mutate of the session store with three subscribers.
C2_Witness == ev.op \in {"uSet", "uMutate"} /\ Len(ev.invoked) = 3

\* C3.  Subscription dedup: at most one live computation exists per
\* (connection, action name, params).
C3_OneComputationPerKey ==
  \A j, k \in DOMAIN comps :
    (/\ comps[j].sub /\ comps[k].sub
     /\ comps[j].conn = comps[k].conn
     /\ comps[j].name = comps[k].name
     /\ comps[j].params = comps[k].params) => j = k

\* C4.  An unsubscribe frame cancels one subscription instance: when the
\* connection holds several subscriptions to the named action, all but one
\* of them stay live.
C4_UnsubscribeCancelsOne ==
  [][(ev'.op = "unsubscribe" /\ Cardinality(Matching(ev'.conn, ev'.name)) >= 2)
       => Cardinality({k \in Matching(ev'.conn, ev'.name) : comps'[k].sub})
            = Cardinality(Matching(ev'.conn, ev'.name)) - 1]_vars

\* C5.  Overlap coalescing: a dependency fire that reaches a computation
\* whose compute call is in flight starts no compute call and leaves one
\* pending request, however many fires arrive; when the call in flight
\* settles, exactly one follow-up call is started if a request is pending and
\* none otherwise; a call that settles with a value delivers it once to the
\* subscriber.
C5_Step ==
  /\ ev'.op = "notify" =>
       \A i \in 1..Len(ev'.invoked) :
         comps[ev'.invoked[i].sub].running =>
           /\ comps'[ev'.invoked[i].sub].running
           /\ comps'[ev'.invoked[i].sub].pending
           /\ comps'[ev'.invoked[i].sub].missed
                = comps[ev'.invoked[i].sub].missed + 1
  /\ (ev'.op \in {"computed", "computeFailed"} /\ proc' = "up") =>
       /\ ev'.absorbed >= 1 <=> comps[ev'.k].pending
       /\ IF comps[ev'.k].pending
          THEN /\ comps'[ev'.k].running /\ ~comps'[ev'.k].pending
               /\ comps'[ev'.k].missed = 0
          ELSE ~comps'[ev'.k].running /\ ~comps'[ev'.k].pending
       /\ (ev'.op = "computed" /\ comps[ev'.k].sub) => ev'.cb = {ev'.k}
C5_Coalescing == [][C5_Step]_vars

\* C5 witness: two fires arrived during one compute call, which has settled
\* with a value and started the one follow-up call.
C5_Witness ==
  /\ ev.op = "computed" /\ ev.absorbed >= 2 /\ ev.cb = {ev.k}
  /\ comps[ev.k].running /\ ~comps[ev.k].pending

\* C6.  Cancellation safety: the callback of a cancelled subscriber handle
\* is never invoked, also when a compute call that was in flight at the
\* cancel settles afterwards.
C6_CancelSafety == \A k \in ev.cb : comps[k].sub /\ ~comps[k].cancelled

\* C6 witness: a compute call settles with a value after its subscriber was
\* cancelled by an unsubscribe frame on a connection that is still open.
C6_Witness ==
  /\ ev.op = "computed" /\ comps[ev.k].cancelled
  /\ ws[comps[ev.k].conn] = "open"

\* C7.  Disconnect cleanup: after a connection has closed none of its
\* subscribers is subscribed and the server holds no handle list for it; no
\* frame is written and no callback invoked for a connection that is not open.
C7_DisconnectCleanup ==
  /\ \A c \in Conns : ws[c] = "closed" =>
       /\ c \notin DOMAIN clientSubs
       /\ \A k \in DOMAIN comps : comps[k].conn = c =>
            ~comps[k].sub
  /\ \A i \in 1..Len(ev.sent) : ws[ev.sent[i].conn] = "open"
  /\ \A k \in ev.cb : ws[comps[k].conn] = "open"

\* C7 witness: a compute call that was in flight when its connection closed
\* settles with a value after the close.
C7_Witness ==
  /\ ev.op = "computed" /\ ws[comps[ev.k].conn] = "closed" /\ ev.sent = <<>>

\* C8.  A derived computation without subscribers holds no subscription on
\* its dependencies.
C8_NoDepsWithoutSubscribers ==
  \A k \in DOMAIN comps : comps[k].activeSubs = 0 => ~HoldsDep(k)

\* C9.  Mutation reply: when the handling of a mutation frame ends on an
\* open connection, exactly one frame with the frame's requestId has been
\* written: a mutationResult when validation and execute succeeded, an error
\* otherwise.
C9_MutationReply ==
  (ev.op \in {"mutationDone", "mutationFailed", "mutationRejected"}
     /\ ws[ev.conn] = "open") =>
    /\ Len(ev.sent) = 1
    /\ ev.sent[1].rid = ev.k
    /\ ev.sent[1].type =
         (IF ev.op = "mutationDone" THEN "mutationResult" ELSE "error")

\* C10.  Invalid mutation input: handling a mutation frame whose params the
\* validator rejects starts no execute, changes no store, observer list,
\* computation or handle list, and leaves the connection open and served.
C10_Step ==
  (ev'.op \in {"mutation", "mutationRejected"} /\ ev'.p = "bad") =>
    /\ muts' = muts /\ ev'.invoked = <<>>
    /\ uSlot' = uSlot /\ nObs' = nObs
    /\ comps' = comps /\ clientSubs' = clientSubs
    /\ ws' = ws /\ ws'[ev'.conn] = "open" /\ proc' = "up"
C10_InvalidInput == [][C10_Step]_vars

\* C11.  A subscribe frame that names an unknown action or whose params the
\* query's validator rejects is answered by exactly one error frame, records
\* no subscriber handle, subscribes to no dependency and leaves the
\* connection open.
C11_Step ==
  (ev'.op = "unknown" \/ (ev'.op = "subscribe" /\ ev'.threw)) =>
    /\ Len(ev'.sent) = 1 /\ ev'.sent[1].type = "error"
    /\ clientSubs' = clientSubs
    /\ nObs' = nObs /\ uSlot' = uSlot
    /\ ws'[ev'.conn] = "open"
C11_RejectedSubscribe == [][C11_Step]_vars

\* C12.  Compute failure delivery: when the compute function of a query
\* fails, the failure is handed once to the subscriber of the computation and
\* one frame of type error (not update) is written for the subscription.
C12_FailureDelivery ==
  (/\ ev.op = "computeFailed" /\ proc = "up"
   /\ comps[ev.k].sub /\ ws[ev.conn] = "open") =>
    /\ ev.cb = {ev.k}
    /\ Len(ev.sent) = 1
    /\ ev.sent[1].type = "error"

\* C13.  Recovery after failure: when a compute call fails the computation
\* is served on: it is left running only for the one follow-up run of a fire
\* that arrived during the failed call, and it keeps its dependency
\* subscriptions and its subscriber, so that the next fire starts a new call.
C13_Step ==
  ev'.op = "computeFailed" =>
    /\ proc' = "up"
    /\ nObs' = nObs /\ uSlot' = uSlot /\ clientSubs' = clientSubs /\ ws' = ws
    /\ comps'[ev'.k].running = comps[ev'.k].pending
    /\ ~comps'[ev'.k].pending
    /\ comps'[ev'.k].sub = comps[ev'.k].sub
C13_Recovery == [][C13_Step]_vars

\* C14.  The action factory is invoked exactly once for each connection, at
\* connection open, under that connection's session id, and never outside a
\* session context.
C14_InSession == ev.made > 0 => ev.conn \in Conns
C14_AtOpen == ev'.op = "connect" => (ev'.made = 1 /\ ev'.conn \in Conns)
C14_FactoryPerConnection == []C14_InSession /\ [][C14_AtOpen]_vars

\* C15.  A get, set, mutate or subscribe of session store U with no session
\* bound throws; it creates no slot, changes no value and invokes no
\* subscriber.
C15_Step ==
  (ev'.name = "U" /\ ev'.conn = NoSession) =>
    /\ ev'.threw
    /\ uSlot' = uSlot
    /\ ev'.invoked = <<>>
C15_NoSessionContext == [][C15_Step]_vars

\* C15 witness: a set outside of any session has thrown while a session
\* holds a written value and a subscriber.
C15_Witness ==
  /\ ev.op = "outside" /\ ev.p = "set" /\ ev.threw
  /\ \E a \in Conns : /\ uSlot[a].exists /\ uSlot[a].val # UInit
                      /\ uSlot[a].obs # <<>>
  /\ \E a \in Conns : ~uSlot[a].exists

\* C16.  Initial delivery: a subscribe to store G or U invokes the new
\* subscriber at once, exactly once, with the current value; a subscribe to
\* notifier N or derived notifier D does not invoke the new subscriber, which
\* is invoked by a later notify.
C16_InitialDelivery ==
  /\ ev.op = "gSubscribe" =>
       ev.invoked = <<[sub |-> gObs[Len(gObs)], val |-> gVal]>>
  /\ ev.op = "uSubscribe" =>
       ev.invoked = <<[sub |-> uSlot[ev.conn].obs[Len(uSlot[ev.conn].obs)],
                       val |-> uSlot[ev.conn].val]>>
  /\ ev.op \in {"nSubscribe", "dSubscribe"} =>
       /\ \A i \in 1..Len(ev.invoked) : ev.invoked[i].sub # ev.p
       /\ \A i \in 1..Len(ev.notified) : ev.notified[i].sub # ev.p
  /\ ev.op = "nNotify" => ev.invoked = SubjectNext(nObs, "void")
  /\ ev.op = "dNotify" => ev.notified = SubjectNext(dObs, "void")

\* C16 witness: a second subscriber has subscribed to D, whose source G holds
\* a written value and emitted it to the new callback of D.
C16_Witness ==
  /\ ev.op = "dSubscribe" /\ Len(dObs) = 2 /\ gVal # UInit
  /\ Len(ev.notified) = 1 /\ ev.notified[1].sub = dObs[1]

\* C17.  Cached subscribe: a subscribe to derived store S while a cached
\* lastValue is present delivers lastValue to the new subscriber first and
\* starts no run (no compute call, no pending request, no timer); a
\* subscribe while no cached value is present calls run(), which starts a
\* compute call, leaves a pending request or starts the debounce timer.
C17_Step ==
  ev'.op = "dsSubscribe" =>
    IF ds.cache # "none" /\ ds.lastValue # NoVal
    THEN /\ Len(ev'.invoked) >= 1
         /\ ev'.invoked[1] = [sub |-> ev'.p, val |-> ds.lastValue]
         /\ ds'.running = ds.running /\ ds'.pending = ds.pending
         /\ ds'.val = ds.val /\ timers' = timers
    ELSE IF ds.debounce > 0
         THEN /\ Len(timers') >= 1
              /\ timers'[Len(timers')] = [kind |-> "execute",
                                          left |-> ds.debounce]
         ELSE /\ ds'.running
              /\ ds.running => ds'.pending
C18_OneTimer ==
  Len(SelectSeq(timers, LAMBDA t : t.kind = "execute")) <= 1
C18_Step ==
  /\ (ev'.op = "dsFire" /\ ds.depHeld /\ ds.debounce > 0) =>
       /\ SelectSeq(timers', LAMBDA t : t.kind = "execute")
            = <<[kind |-> "execute", left |-> ds.debounce]>>
       /\ ds'.running = ds.running /\ ds'.pending = ds.pending
  /\ (ev'.op = "dsTimer" /\ ev'.p = "execute") =>
       /\ since >= DebounceMs
       /\ ds'.running
       /\ SelectSeq(timers', LAMBDA t : t.kind = "execute") = <<>>
C18_Debounce == []C18_OneTimer /\ [][C18_Step]_vars

\* C18 witness: a fire arrives less than the interval after the previous call
\* of run() and replaces the pending timer.
C18_Witness ==
  /\ ev.op = "dsFire" /\ ev.absorbed = 1
  /\ ev.k > 0 /\ ev.k < DebounceMs
  /\ ~ds.running /\ since = 0

\* C19.  Strict FIFO per connection: the handling of a frame received on a
\* connection does not begin while the handling of an earlier frame of that
\* connection is suspended awaiting its mutation.
C19_Step == msgs' # msgs => \A m \in muts : m.conn # ev'.conn
C19_FifoPerConnection == [][C19_Step]_vars

\* C20.  The validator of a query is applied exactly once to the params of a
\* subscribe frame, in the handling of that frame, and in no other task: the
\* compute calls of the subscription (the first and every recompute) use the
\* output of that one application.
C20_Step ==
  /\ ev'.op = "subscribe" => ev'.parsed = 1
  /\ ev'.op # "subscribe" => ev'.parsed = 0
C20_ValidatedOnce == [][C20_Step]_vars

\* C21.  Param canonicalization: any two params given to subscribe for the
\* same endpoint that have the same members, whatever the order of their
\* keys, and with undefined standing for the empty object, are registered
\* under the same subscription key.
C21_SameParams(p, q) == Range(p.ents) = Range(q.ents)

C21_Canonical ==
  \A h1, h2 \in client.handles :
     h1.endpoint = h2.endpoint /\ C21_SameParams(h1.params, h2.params)
       => SubscriptionKey(h1.endpoint, h1.params)
            = SubscriptionKey(h2.endpoint, h2.params)

C23_AmbientSession ==
  \A k \in DOMAIN comps : comps[k].running => comps[k].ctx = comps[k].conn

\* C24.  At most one recompute executes at a time: no closure of a query
\* ever awaits more than one call of its compute function.
C24_OneInFlight ==
  \A o \in SqSubscribers : Cardinality(sq[o].inflight) <= 1

\* C25.  Dependency subscriptions follow the subscribers: whenever derived
\* store S has at least one subscriber it holds the subscription to its
\* dependency, also after its subscriber count had dropped to zero.
C25_HoldsDepsWhileSubscribed == ds.made /\ ds.activeSubs >= 1 => ds.depHeld

\* C26.  Cancel is idempotent: a second call of the unsubscribe of a handle
\* of derived store S changes nothing: the subscriber count is not
\* decremented again and stays at least zero, and the dependency stays
\* subscribed while a subscriber is attached.
C26_Step ==
  ev'.op = "dsUnsubscribeAgain" =>
    /\ ds'.activeSubs = ds.activeSubs
    /\ ds'.activeSubs >= 0
    /\ ds'.obs # <<>> /\ ds.depHeld => ds'.depHeld

C26_IdempotentCancel == [][C26_Step]_vars

\* C27.  Debounce timers are cancelled on last-unsubscribe: the unsubscribe
\* that takes the subscriber count of S to zero leaves no debounce timer
\* pending, and no debounce timer calls execute() while S has no subscriber
\* after a subscriber has left.
C27_Step ==
  /\ ev'.op = "dsUnsubscribe" /\ ds'.activeSubs = 0
       => \A i \in DOMAIN timers' : timers'[i].kind # "execute"
  /\ ev'.op = "dsTimer" /\ ev'.p = "execute"
       => ~(ds.activeSubs = 0 /\ ds.cancelled # {})

C27_TimersCancelled == [][C27_Step]_vars

\* C28.  No compute after cancel: once the subscriber of a computation has
\* unsubscribed, or its connection has closed, the compute function of that
\* computation is not started again, neither by the pending follow-up of a
\* run in flight nor by a later fire of a dependency.
C28_Step ==
  proc' = "up" =>
    \A k \in DOMAIN comps :
       comps[k].cancelled =>
         ~ /\ comps'[k].running
           /\ \/ ~comps[k].running
              \/ ev'.op \in {"computed", "computeFailed"} /\ ev'.k = k

C28_NoComputeAfterCancel == [][C28_Step]_vars

\* C29.  One subscribe, one result: while no dependency changes, a subscribe
\* frame makes the server invoke the compute function once and write one
\* update frame: the settling of the compute call writes the update frame
\* and does not start the compute function again.
C29_Step ==
  ev'.op = "computed" /\ proc' = "up" =>
    /\ ~comps'[ev'.k].running
    /\ ws[ev'.conn] = "open" /\ comps[ev'.k].sub => Len(ev'.sent) = 1

C29_OneComputePerSubscribe == [][C29_Step]_vars

\* C30.  Cache definedness: for a cached derived store, lastValue is defined
\* exactly when a recompute has completed and, with a finite cache duration,
\* the expiry set by the most recent completed recompute has not run.  The
\* expiry timers still pending are those of the most recent recomputes, so an
\* expiry timer with time left means the most recent one has not elapsed.
C30_CacheDefined ==
  ds.made /\ hasCache(ds) =>
    /\ ds.lastValue # NoVal =>
         /\ ds.subjVal # NoVal
         /\ ds.cache = "finite" =>
              \E i \in DOMAIN timers : timers[i].kind = "expire"
    /\ /\ ds.subjVal # NoVal
       /\ ds.cache = "finite" =>
            \E i \in DOMAIN timers :
               timers[i].kind = "expire" /\ timers[i].left > 0
       => ds.lastValue # NoVal

\* C31.  Cache duration: the value stored by a completed recompute of S stays
\* in lastValue for the full cache duration: an expiry callback never clears
\* lastValue while the expiry timer of a later recompute still has time left.
C31_Step ==
  ev'.op = "dsTimer" /\ ev'.p = "expire" /\ ds.lastValue # NoVal =>
    \A i \in DOMAIN timers' :
       ~(timers'[i].kind = "expire" /\ timers'[i].left > 0)

C31_FullDuration == [][C31_Step]_vars

\* C32.  Synchronous delivery of subscribe on a cached derived store: the new
\* subscriber is called once with the cached value when lastValue is defined,
\* and is not called when no recompute has completed or the value has expired.
C32_Step ==
  ev'.op = "dsSubscribe" /\ hasCache(ds) =>
    ev'.invoked = IF ds.lastValue # NoVal
                  THEN <<[sub |-> ev'.p, val |-> ds.lastValue]>> ELSE <<>>

C32_SubscribeDelivery == [][C32_Step]_vars

\* C33.  Fan-out and order: a subscriber of a query sees the values of
\* successive recomputes in the order in which the recomputes were started:
\* the result passed to notify is that of a run started after the run whose
\* result was passed before.
C33_Step ==
  ev'.op = "sqSettled" /\ ev'.notified # <<>> =>
    \A o \in ev'.cb : ev'.k > sq[o].seen

C33_ProductionOrder == [][C33_Step]_vars

\* C34.  Derived notifier: one firing of the source G of derived notifier D
\* invokes every subscriber of D once, and a subscribe to D invokes no
\* subscriber of D.
C34_DerivedOnce ==
  /\ ev.op \in {"gSet", "gMutate"} => ev.notified = SubjectNext(dObs, "void")
  /\ ev.op = "dSubscribe" => ev.notified = <<>>

\* C35.  Session state release: once a connection has closed, no session
\* store holds a slot for the session id of that connection.
C35_SessionReleased ==
  \A c \in Conns : ws[c] = "closed" /\ Up => ~uSlot[c].exists

\* C36.  Closing or unsubscribing on connection A affects only A: the number
\* of subscriptions on notifier N drops by the number of subscriptions A
\* cancels, and the computations of the other connections and their
\* subscriptions on N are untouched.  A later notification of N reaches
\* every computation that still has its subscriber: it starts a compute call
\* or is absorbed by the one in flight, which is followed by one more, and
\* every compute call that succeeds writes one update frame to its open
\* connection.
C36_Cancelled ==
  IF ev'.op = "close" THEN Len(clientSubs[ev'.conn])
  ELSE Len(SelectSeq(clientSubs[ev'.conn], LAMBDA x : x.name = ev'.name))

C36_Step ==
  proc' = "up" =>
    /\ ev'.op \in {"close", "unsubscribe"} =>
         /\ Len(nObs) - Len(nObs') = C36_Cancelled
         /\ \A k \in DOMAIN comps :
              comps[k].conn # ev'.conn =>
                /\ comps'[k] = comps[k]
                /\ k \in Range(nObs) <=> k \in Range(nObs')
    /\ ev'.op = "notify" =>
         \A k \in DOMAIN comps :
            comps[k].sub =>
              /\ \E i \in DOMAIN ev'.invoked : ev'.invoked[i].sub = k
              /\ comps'[k].running
              /\ comps[k].running => comps'[k].pending
    /\ ev'.op = "computed" /\ comps[ev'.k].sub /\ ws[ev'.conn] = "open" =>
         Len(ev'.sent) = 1
    /\ ev'.op \in {"computed", "computeFailed"} /\ comps[ev'.k].pending =>
         comps'[ev'.k].running

C36_OnlyOwnSubscriptions == [][C36_Step]_vars

\* C36 as stated: in addition every notification gets an update of its own,
\* so that no compute call absorbs more than one notification.
C36_OneUpdatePerNotify ==
  [][C36_Step /\ (ev'.op = "computed" => ev'.absorbed <= 1)]_vars

\* C36 witness: c1 has closed, and the notification that followed reached
\* the computation of c2, which is computing.
C36_Witness ==
  /\ ws["c1"] = "closed" /\ ws["c2"] = "open"
  /\ ev.op = "notify" /\ Len(ev.invoked) = 1
  /\ Len(comps) = 2 /\ comps[1].conn = "c1" /\ comps[1].cancelled
  /\ comps[2].conn = "c2" /\ comps[2].sub /\ comps[2].running
  /\ nObs = <<2>>

\* C37.  Client-side deduplication mirrors the callback counts: on an open
\* socket a call writes a subscribe frame exactly when it takes the number of
\* callbacks registered under a key from 0 to 1, and an unsubscribe frame
\* exactly when it takes that number from 1 to 0.
C37_Count(cl, key) ==
  IF key \in DOMAIN cl.subscriptions
  THEN Cardinality(cl.subscriptions[key]) ELSE 0

C37_Written(type) ==
  \E i \in (Len(client.out) + 1)..Len(client'.out) : client'.out[i].type = type

C37_Step ==
  client.ready /\ client'.ready =>
    /\ C37_Written("subscribe") <=>
         \E key \in DOMAIN client'.subscriptions :
            C37_Count(client, key) = 0 /\ C37_Count(client', key) = 1
    /\ C37_Written("unsubscribe") <=>
         \E key \in DOMAIN client'.subscriptions :
            C37_Count(client, key) = 1 /\ C37_Count(client', key) = 0

C37_FramesMirrorCounts == [][C37_Step]_vars

\* C38.  Database notifier delivery count: a notification received on the
\* channel of a table invokes every current subscriber of the notifier of
\* that table once.
C38_OncePerNotification ==
  ev.op = "pgNotification" =>
    \A fn \in Range(pgn[ev.name].subs) :
       Cardinality({i \in DOMAIN ev.invoked : ev.invoked[i] = fn}) = 1

\* C39.  Scope inference: the scope of a derived store and of a derived
\* notifier is "session" if one of its dependencies has scope "session" and
\* "global" otherwise, also for an empty list of dependencies.
C39_ScopeInference ==
  ev.op \in {"derivedStore", "derivedNotifier"} =>
    /\ ev.p \in {"session", "global"}
    /\ ev.p = "session" <=> \E i \in DOMAIN ev.sent : ev.sent[i] = "U"

\* C39 witness: a derived notifier over global sources and the session store.
C39_Witness ==
  /\ ev.op = "derivedNotifier" /\ ev.p = "session"
  /\ Len(ev.sent) = MaxDeps /\ ev.sent[1] = "G" /\ ev.sent[MaxDeps] = "U"

====
